---- MODULE Spec2Model ----
(***************************************************************************)
(* Model of the film REST service (src/index.js, src/unnamed/part_000).    *)
(*                                                                         *)
(* State: the films table, the film-images bucket and one record per       *)
(* request slot.  A slot holds a request in flight or the latest response. *)
(* Every handler is an async function: the code between two awaits runs    *)
(* atomically, so each action below is one awaited remote call together    *)
(* with the synchronous code that follows it up to the next await or the   *)
(* response.  Requests in different slots interleave at their awaits.      *)
(*                                                                         *)
(* Remote calls and their outcomes:                                        *)
(*   pool.query  resolves, or rejects (caught by the handler's catch);     *)
(*   upload      returns {error}: null, or an error (always an error when  *)
(*               the key is already in the bucket: no upsert is asked);    *)
(*   remove      returns {error} like upload (the handlers never read it), *)
(*               or rejects.                                               *)
(*                                                                         *)
(* Date.now() is wall-clock time: a read gives any value of Times, so two  *)
(* reads may give the same millisecond.  multer hands over originalname    *)
(* without directories, so a storage key is one path segment, and a public *)
(* URL is the sequence of its path segments.                               *)
(***************************************************************************)
EXTENDS Naturals, Sequences, FiniteSets

MaxFilms == 2
MaxClock == 1
MaxRequests == 3

Procs == {"p1", "p2"}
Users == {"u1", "u2"}
NoAuth == ""
Auths == Users \cup {NoAuth}
Names == {"a", "b"}
NoName == ""
NoFile == "nofile"
OrigNames == {"img"}
NoKey == <<>>
NoUrl == <<>>
Ids == 1 .. MaxFilms
Times == 0 .. MaxClock

VARIABLES
  films,       \* the rows of table films
  nextId,      \* the next value of the id sequence
  bucket,      \* the keys of the objects in bucket film-images
  req,         \* per slot: the request in flight, or the latest response
  nreq,        \* requests received so far
  deleted200,  \* history: the ids a delete has answered 200 for
  hist,        \* history: "clean" while requests ran one at a time and no
               \* call failed, "img404" once such a run answered 404 to an
               \* update that supplied an image, "dirty" otherwise
  uploads,     \* history: per key, the uploads that succeeded (up to 2)
  lost         \* history: the keys an update removed before it ended in 500

vars == <<films, nextId, bucket, req, nreq, deleted200, hist, uploads, lost>>

(* `${Date.now()}-${originalname}` *)
FileNameOf(now, originalname) == <<now, originalname>>

Keys == {FileNameOf(t, o) : t \in Times, o \in OrigNames}

(* supabase.storage.from('film-images').getPublicUrl(fileName).data.publicUrl *)
PublicUrl(fileName) == <<"storage", "film-images", fileName>>

(* path.basename(imageUrl), imageUrl.split('/').pop() *)
Basename(url) == url[Len(url)]

(* faulty variant: the WHERE clause without user_id = $2 *)
SelectAnyOwner(id, userId) == {r \in films : r.id = id}

(* ... FROM films WHERE id = $1 AND user_id = $2 *)
SelectOwned(id, userId) == {r \in films : r.id = id /\ r.userId = userId}

Idle ==
  [pc |-> "idle", kind |-> "none", auth |-> NoAuth, id |-> 0, name |-> NoName,
   file |-> NoFile, fileName |-> NoKey, newFileName |-> NoKey,
   newPublicUrl |-> NoUrl, status |-> 0, rows |-> <<>>,
   ops |-> <<>>, errors |-> {}, removed |-> FALSE]

InFlight(p) == req[p].pc \notin {"idle", "done"}

(* res.status(code).json(...): the handler returns, its locals are gone *)
Respond(r, code) ==
  [r EXCEPT !.pc = "done", !.status = code, !.fileName = NoKey,
            !.newFileName = NoKey, !.newPublicUrl = NoUrl, !.removed = FALSE]

(* the awaited call op resolved: the handler goes on *)
Called(r, op) == [r EXCEPT !.ops = Append(@, op)]

(* catch (err) { console.error(...); res.status(500).json({error: ...}) } *)
Catch(r, op) == [Respond(Called(r, op), 500) EXCEPT !.errors = @ \cup {op}]

(* The slots after p's record becomes r: a response stays in its slot until
   the next response is sent *)
Put(p, r) ==
  [q \in Procs |->
     IF q = p THEN r
     ELSE IF r.pc = "done" /\ req[q].pc = "done" THEN Idle
     ELSE req[q]]

(* hist after a call that went well (ok) or not *)
After(ok) == IF ok THEN hist ELSE "dirty"

Init ==
  /\ films = {}
  /\ nextId = 1
  /\ bucket = {}
  /\ req = [p \in Procs |-> Idle]
  /\ nreq = 0
  /\ deleted200 = {}
  /\ hist = "clean"
  /\ uploads = [k \in Keys |-> 0]
  /\ lost = {}

NewRequest(kind, auth, id, name, file) ==
  [Idle EXCEPT !.kind = kind, !.auth = auth, !.id = id, !.name = name,
               !.file = file]

(* a request reaches its handler in a free slot *)
Arrive(p, r) ==
  /\ ~InFlight(p)
  /\ nreq < MaxRequests
  /\ nreq' = nreq + 1
  /\ req' = Put(p, r)
  /\ hist' = After(\A q \in Procs \ {p} : ~InFlight(q))
  /\ UNCHANGED <<films, nextId, bucket, deleted200, uploads, lost>>

(* faulty variant: the header check left out *)
HeaderNeverMissing(userId) == FALSE

(* if (!userId) return res.status(401) *)
HeaderMissing(userId) == userId = NoAuth

(* app.get('/films'): the header check *)
ListStart(p) ==
  \E auth \in Auths :
    LET r == NewRequest("list", auth, 0, NoName, NoFile) IN
    Arrive(p, IF HeaderMissing(auth) THEN Respond(r, 401)
              ELSE [r EXCEPT !.pc = "query"])

RECURSIVE RowsDesc(_, _)
(* SELECT id, name, image_url AS "imageUrl", (user_id = $1) AS mine
   FROM films ORDER BY created_at DESC; ids are handed out in creation order *)
RowsDesc(rows, userId) ==
  IF rows = {} THEN <<>>
  ELSE LET r == CHOOSE x \in rows : \A y \in rows : y.id <= x.id IN
       <<[id |-> r.id, name |-> r.name, imageUrl |-> r.imageUrl,
          mine |-> (r.userId = userId)]>>
       \o RowsDesc(rows \ {r}, userId)

(* const { rows } = await pool.query(query, [userId]); res.json(rows) *)
ListQuery(p) ==
  /\ req[p].pc = "query"
  /\ \E ok \in BOOLEAN :
       /\ req' = Put(p,
            IF ok THEN [Respond(Called(req[p], "query"), 200) EXCEPT
                          !.rows = RowsDesc(films, req[p].auth)]
            ELSE Catch(req[p], "query"))
       /\ hist' = After(ok)
  /\ UNCHANGED <<films, nextId, bucket, nreq, deleted200, uploads, lost>>

(* faulty variant: the check without !name *)
CreateFieldsMissingNoName(userId, name, file) == userId = NoAuth \/ file = NoFile

(* if (!userId || !name || !file) return res.status(400) *)
CreateFieldsMissing(userId, name, file) ==
  userId = NoAuth \/ name = NoName \/ file = NoFile

(* app.post('/films'): the required-field check, then the storage key *)
CreateStart(p) ==
  \E auth \in Auths, name \in Names \cup {NoName},
     file \in OrigNames \cup {NoFile}, now \in Times :
    LET r == NewRequest("create", auth, 0, name, file)
        missing == CreateFieldsMissing(auth, name, file) IN
    /\ ~missing => nextId + Cardinality({q \in Procs \ {p} :
                     InFlight(q) /\ req[q].kind = "create"}) <= MaxFilms
    /\ Arrive(p, IF missing THEN Respond(r, 400)
                 ELSE [r EXCEPT !.pc = "upload",
                                !.newFileName = FileNameOf(now, file)])

(* what one successful upload adds to the history *)
Uploaded(key) ==
  [uploads EXCEPT ![key] = IF @ < 2 THEN @ + 1 ELSE @]

(* await supabase.storage.from('film-images').upload(fileName, ...);
   if (uploadError) throw uploadError; then getPublicUrl *)
CreateUpload(p) ==
  /\ req[p].pc = "upload" /\ req[p].kind = "create"
  /\ \E ok \in BOOLEAN :
       /\ ok => req[p].newFileName \notin bucket
       /\ bucket' = IF ok THEN bucket \cup {req[p].newFileName} ELSE bucket
       /\ uploads' = IF ok THEN Uploaded(req[p].newFileName) ELSE uploads
       /\ req' = Put(p,
            IF ok THEN [Called(req[p], "upload") EXCEPT
                          !.pc = "insert",
                          !.newPublicUrl = PublicUrl(req[p].newFileName)]
            ELSE Catch(req[p], "upload"))
       /\ hist' = After(ok)
  /\ UNCHANGED <<films, nextId, nreq, deleted200, lost>>

(* INSERT INTO films (name, image_url, user_id) VALUES ($1, $2, $3)
   RETURNING *; res.status(201) *)
CreateInsert(p) ==
  /\ req[p].pc = "insert"
  /\ \E ok \in BOOLEAN :
       /\ films' = IF ok
            THEN films \cup {[id |-> nextId, name |-> req[p].name,
                              imageUrl |-> req[p].newPublicUrl,
                              userId |-> req[p].auth]}
            ELSE films
       /\ nextId' = IF ok THEN nextId + 1 ELSE nextId
       /\ req' = Put(p, IF ok THEN Respond(Called(req[p], "insert"), 201)
                        ELSE Catch(req[p], "insert"))
       /\ hist' = After(ok)
  /\ UNCHANGED <<bucket, nreq, deleted200, uploads, lost>>

(* app.put('/films/:id'): the header and name checks; without a file the
   handler goes straight to the UPDATE *)
UpdateStart(p) ==
  \E auth \in Auths, id \in Ids, name \in Names \cup {NoName},
     file \in OrigNames \cup {NoFile} :
    LET r == NewRequest("update", auth, id, name, file) IN
    Arrive(p, IF HeaderMissing(auth) THEN Respond(r, 401)
              ELSE IF name = NoName THEN Respond(r, 400)
              ELSE IF file # NoFile THEN [r EXCEPT !.pc = "select"]
              ELSE [r EXCEPT !.pc = "update"])

(* const { rows: oldFilm } = await pool.query('SELECT image_url ...');
   with a row: oldFileName, then the remove; with none the handler names the
   new file and uploads *)
UpdateSelect(p) ==
  /\ req[p].pc = "select" /\ req[p].kind = "update"
  /\ \E ok \in BOOLEAN, now \in Times :
       /\ req' = Put(p,
            IF ~ok THEN Catch(req[p], "select")
            ELSE LET oldFilm == SelectOwned(req[p].id, req[p].auth) IN
              IF oldFilm # {}
              THEN [Called(req[p], "select") EXCEPT
                     !.pc = "remove",
                     !.fileName = Basename((CHOOSE r \in oldFilm : TRUE).imageUrl)]
              ELSE [Called(req[p], "select") EXCEPT
                     !.pc = "upload",
                     !.newFileName = FileNameOf(now, req[p].file)])
       /\ hist' = After(ok)
  /\ UNCHANGED <<films, nextId, bucket, nreq, deleted200, uploads, lost>>

RemoveOutcomes == {"ok", "error", "reject"}

(* faulty variant: a remove that deletes nothing *)
KeptObjects(key, out) == bucket

(* the bucket after remove([key]) ended with outcome out *)
Removed(key, out) == IF out = "ok" THEN bucket \ {key} ELSE bucket

(* await supabase.storage.from('film-images').remove([oldFileName]);
   the returned {error} is not read; then the new file is named *)
UpdateRemove(p) ==
  /\ req[p].pc = "remove" /\ req[p].kind = "update"
  /\ \E out \in RemoveOutcomes, now \in Times :
       /\ bucket' = Removed(req[p].fileName, out)
       /\ req' = Put(p,
            IF out = "reject" THEN Catch(req[p], "remove")
            ELSE [Called(req[p], "remove") EXCEPT
                    !.pc = "upload",
                    !.newFileName = FileNameOf(now, req[p].file),
                    !.errors = IF out = "error" THEN {"remove"} ELSE {},
                    !.removed = (out = "ok")])
       /\ hist' = After(out = "ok")
  /\ UNCHANGED <<films, nextId, nreq, deleted200, uploads, lost>>

(* the keys lost once the update in r ends in 500 *)
Lost(r) == IF r.removed THEN lost \cup {r.fileName} ELSE lost

(* faulty variant: uploadError is not thrown, the handler goes on to the
   UPDATE with the new URL *)
UpdateUploadThenQuery(p) ==
  /\ req[p].pc = "upload" /\ req[p].kind = "update"
  /\ \E ok \in BOOLEAN :
       /\ ok => req[p].newFileName \notin bucket
       /\ bucket' = IF ok THEN bucket \cup {req[p].newFileName} ELSE bucket
       /\ uploads' = IF ok THEN Uploaded(req[p].newFileName) ELSE uploads
       /\ req' = Put(p, [Called(req[p], "upload") EXCEPT
                          !.pc = "update",
                          !.newPublicUrl = PublicUrl(req[p].newFileName),
                          !.errors = IF ok THEN @ ELSE @ \cup {"upload"}])
       /\ lost' = lost
       /\ hist' = After(ok)
  /\ UNCHANGED <<films, nextId, nreq, deleted200>>

(* await ...upload(newFileName, ...); if (uploadError) throw uploadError;
   newPublicUrl = ...getPublicUrl(newFileName).data.publicUrl *)
UpdateUpload(p) ==
  /\ req[p].pc = "upload" /\ req[p].kind = "update"
  /\ \E ok \in BOOLEAN :
       /\ ok => req[p].newFileName \notin bucket
       /\ bucket' = IF ok THEN bucket \cup {req[p].newFileName} ELSE bucket
       /\ uploads' = IF ok THEN Uploaded(req[p].newFileName) ELSE uploads
       /\ req' = Put(p,
            IF ok THEN [Called(req[p], "upload") EXCEPT
                          !.pc = "update",
                          !.newPublicUrl = PublicUrl(req[p].newFileName)]
            ELSE Catch(req[p], "upload"))
       /\ lost' = IF ok THEN lost ELSE Lost(req[p])
       /\ hist' = After(ok)
  /\ UNCHANGED <<films, nextId, nreq, deleted200>>

(* faulty variant: image_url is always set, also to a null newPublicUrl *)
UpdateRowsAndUrl(r) ==
  {[f EXCEPT !.name = r.name, !.imageUrl = r.newPublicUrl]
     : f \in SelectOwned(r.id, r.auth)}

(* UPDATE films SET name = $1, image_url = $2 WHERE id = $3 AND user_id = $4
   when newPublicUrl is set, else UPDATE films SET name = $1 WHERE ...;
   RETURNING * *)
UpdateRows(r) ==
  {[f EXCEPT !.name = r.name,
             !.imageUrl = IF r.newPublicUrl # NoUrl THEN r.newPublicUrl ELSE @]
     : f \in SelectOwned(r.id, r.auth)}

(* const { rows } = await pool.query(query, queryParams);
   404 when rows.length === 0, else 200 *)
UpdateQuery(p) ==
  /\ req[p].pc = "update"
  /\ \E ok \in BOOLEAN :
       LET rows == UpdateRows(req[p])
           code == IF rows = {} THEN 404 ELSE 200 IN
       /\ films' = IF ok
            THEN (films \ SelectOwned(req[p].id, req[p].auth)) \cup rows
            ELSE films
       /\ req' = Put(p, IF ok THEN Respond(Called(req[p], "update"), code)
                        ELSE Catch(req[p], "update"))
       /\ lost' = IF ok THEN lost ELSE Lost(req[p])
       /\ hist' = IF ~ok THEN "dirty"
                  ELSE IF hist = "clean" /\ code = 404 /\ req[p].file # NoFile
                  THEN "img404"
                  ELSE hist
  /\ UNCHANGED <<nextId, bucket, nreq, deleted200, uploads>>

(* app.delete('/films/:id'): the header check *)
DeleteStart(p) ==
  \E auth \in Auths, id \in Ids :
    LET r == NewRequest("delete", auth, id, NoName, NoFile) IN
    Arrive(p, IF HeaderMissing(auth) THEN Respond(r, 401)
              ELSE [r EXCEPT !.pc = "select"])

(* const { rows: filmRows } = await pool.query(selectQuery, [id, userId]);
   404 when filmRows.length === 0, else fileName = path.basename(imageUrl) *)
DeleteSelect(p) ==
  /\ req[p].pc = "select" /\ req[p].kind = "delete"
  /\ \E ok \in BOOLEAN :
       /\ req' = Put(p,
            IF ~ok THEN Catch(req[p], "select")
            ELSE LET filmRows == SelectOwned(req[p].id, req[p].auth) IN
              IF filmRows = {}
              THEN Respond(Called(req[p], "select"), 404)
              ELSE [Called(req[p], "select") EXCEPT
                     !.pc = "delete",
                     !.fileName = Basename((CHOOSE r \in filmRows : TRUE).imageUrl)])
       /\ hist' = After(ok)
  /\ UNCHANGED <<films, nextId, bucket, nreq, deleted200, uploads, lost>>

(* faulty variant: the rowCount check left out *)
NeverZero(rowCount) == FALSE

(* if (result.rowCount === 0) return res.status(404) *)
RowCountZero(rowCount) == rowCount = 0

(* faulty variant: a DELETE that deletes nothing *)
KeepRows(id, userId) == films

(* the table after DELETE FROM films WHERE id = $1 AND user_id = $2 *)
DeleteRows(id, userId) == films \ SelectOwned(id, userId)

(* const result = await pool.query(deleteQuery, [id, userId]) *)
DeleteQuery(p) ==
  /\ req[p].pc = "delete"
  /\ \E ok \in BOOLEAN :
       LET rowCount == Cardinality(SelectOwned(req[p].id, req[p].auth)) IN
       /\ films' = IF ok THEN DeleteRows(req[p].id, req[p].auth) ELSE films
       /\ req' = Put(p,
            IF ~ok THEN Catch(req[p], "delete")
            ELSE IF RowCountZero(rowCount)
            THEN Respond(Called(req[p], "delete"), 404)
            ELSE [Called(req[p], "delete") EXCEPT !.pc = "remove"])
       /\ hist' = After(ok)
  /\ UNCHANGED <<nextId, bucket, nreq, deleted200, uploads, lost>>

(* await supabase.storage.from('film-images').remove([fileName]); the
   returned {error} is not read; res.status(200) *)
DeleteRemove(p) ==
  /\ req[p].pc = "remove" /\ req[p].kind = "delete"
  /\ \E out \in RemoveOutcomes :
       /\ bucket' = Removed(req[p].fileName, out)
       /\ req' = Put(p,
            IF out = "reject" THEN Catch(req[p], "remove")
            ELSE [Respond(Called(req[p], "remove"), 200) EXCEPT
                    !.errors = IF out = "error" THEN {"remove"} ELSE {}])
       /\ deleted200' = IF out = "reject" THEN deleted200
                        ELSE deleted200 \cup {req[p].id}
       /\ hist' = After(out = "ok")
  /\ UNCHANGED <<films, nextId, nreq, uploads, lost>>

Next ==
  \/ \E p \in Procs : ListStart(p)
  \/ \E p \in Procs : ListQuery(p)
  \/ \E p \in Procs : CreateStart(p)
  \/ \E p \in Procs : CreateUpload(p)
  \/ \E p \in Procs : CreateInsert(p)
  \/ \E p \in Procs : UpdateStart(p)
  \/ \E p \in Procs : UpdateSelect(p)
  \/ \E p \in Procs : UpdateRemove(p)
  \/ \E p \in Procs : UpdateUpload(p)
  \/ \E p \in Procs : UpdateQuery(p)
  \/ \E p \in Procs : DeleteStart(p)
  \/ \E p \in Procs : DeleteSelect(p)
  \/ \E p \in Procs : DeleteQuery(p)
  \/ \E p \in Procs : DeleteRemove(p)

Spec == Init /\ [][Next]_vars

(***************************************************************************)
(* Vocabulary of the claims                                                *)
(***************************************************************************)

(* slot p takes a step: a request arrives in it or its handler goes on *)
Acts(p) == req'[p] # req[p] /\ req'[p].pc # "idle"

(* slot p sends its response in this step *)
Answers(p) == Acts(p) /\ req'[p].pc = "done"

Has(ops, op) == \E i \in 1 .. Len(ops) : ops[i] = op

IsPrefix(s, t) == Len(s) <= Len(t) /\ \A i \in 1 .. Len(s) : s[i] = t[i]

(* the row's image is not in the bucket *)
Dangling(f) == Basename(f.imageUrl) \notin bucket

(* an update of film f is between its old-object deletion and its UPDATE *)
UpdateWindow(f) ==
  \E p \in Procs :
    /\ req[p].kind = "update" /\ req[p].pc \in {"upload", "update"}
    /\ req[p].id = f.id /\ req[p].auth = f.userId
    /\ req[p].removed /\ req[p].fileName = Basename(f.imageUrl)

(* the objects no row refers to *)
Orphans == {k \in bucket : \A f \in films : Basename(f.imageUrl) # k}

Quiet == \A p \in Procs : ~InFlight(p)

(***************************************************************************)
(* C1                                                                      *)
(***************************************************************************)

(* C1 as stated: whenever no update request is in flight for a film, the
   film row's imageUrl names an object that is in the bucket, failed calls
   included. *)
C1_ImageExistsOutsideUpdate ==
  \A f \in films :
    (\A p \in Procs : ~(InFlight(p) /\ req[p].kind = "update" /\ req[p].id = f.id))
      => ~Dangling(f)

(* C1 amended: a film row's imageUrl names an object that is in the bucket,
   unless an update of that film is between its old-object deletion and its
   row update, or an update removed that object and then ended in 500, or
   the object's key was produced by more than one upload. *)
C1_ImageExistsUnlessLost ==
  \A f \in films :
    Dangling(f) =>
      \/ UpdateWindow(f)
      \/ Basename(f.imageUrl) \in lost
      \/ uploads[Basename(f.imageUrl)] >= 2

(* no request is in flight and a film row names an object that is gone: an
   update of the film removed it and then ended in 500 *)
C1_Witness ==
  /\ Quiet
  /\ \E f \in films :
       /\ Dangling(f) /\ ~UpdateWindow(f)
       /\ Basename(f.imageUrl) \in lost
       /\ uploads[Basename(f.imageUrl)] = 1

(***************************************************************************)
(* C2                                                                      *)
(***************************************************************************)

UpdateCallOrders ==
  {<<"select", "remove", "upload", "update">>, <<"select", "upload", "update">>}

(* C2: in an update that supplies an image the calls are issued in the order
   SELECT, remove of the old object (when the SELECT found the row), upload,
   UPDATE; no step before the UPDATE changes the films table, and a failed
   upload ends the request in 500 with the table as it was. *)
C2_UpdateOrder ==
  [][\A p \in Procs :
       (Acts(p) /\ req'[p].kind = "update" /\ req'[p].file # NoFile
          /\ ~HeaderMissing(req'[p].auth) /\ req'[p].name # NoName)
       => /\ \E o \in UpdateCallOrders : IsPrefix(req'[p].ops, o)
          /\ Has(req'[p].ops, "remove") => req[p].fileName # NoKey
          /\ req[p].pc # "update" => films' = films
          /\ "upload" \in req'[p].errors
               => /\ films' = films
                  /\ req'[p].pc = "done" /\ req'[p].status = 500
                  /\ ~Has(req'[p].ops, "update")]_vars

(* an owner's update removed the old object, its upload failed, and the row
   still has its name and imageUrl *)
C2_Witness ==
  \E p \in Procs, f \in films :
    /\ req[p].pc = "done" /\ req[p].kind = "update" /\ req[p].status = 500
    /\ req[p].ops = <<"select", "remove", "upload">>
    /\ f.id = req[p].id /\ f.userId = req[p].auth /\ f.name # req[p].name

(***************************************************************************)
(* C3                                                                      *)
(***************************************************************************)

(* C3: a request one of whose object-store or database calls reported an
   error ends with status 500. *)
C3_FailedCallIs500 ==
  \A p \in Procs :
    (req[p].pc = "done" /\ req[p].errors # {}) => req[p].status = 500

(***************************************************************************)
(* C4                                                                      *)
(***************************************************************************)

(* C4: no step of an update request by a caller other than the film's owner
   changes the films table, and the request is answered 404 (500 when one of
   its calls failed), never 200. *)
C4_NonOwnerUpdate ==
  [][\A p \in Procs :
       (Acts(p) /\ req'[p].kind = "update" /\ req'[p].name # NoName
          /\ req'[p].auth \in Users
          /\ \E f \in films : f.id = req'[p].id /\ f.userId # req'[p].auth)
       => /\ films' = films
          /\ req'[p].pc = "done" =>
               /\ req'[p].status \in {404, 500}
               /\ req'[p].status = 500 <=> req'[p].errors # {}]_vars

(* u2's update of u1's film, with an image, was answered 404 and the row is
   still u1's, with another name than the one u2 sent *)
C4_Witness ==
  \E p \in Procs, f \in films :
    /\ req[p].pc = "done" /\ req[p].kind = "update" /\ req[p].status = 404
    /\ req[p].file # NoFile
    /\ f.id = req[p].id /\ f.userId = "u1" /\ req[p].auth = "u2"
    /\ f.name # req[p].name

(***************************************************************************)
(* C5                                                                      *)
(***************************************************************************)

(* C5: a list, update or delete request without the authorization header is
   answered 401 at once: it makes no call, and the films table and the
   bucket are as before. *)
C5_NoHeaderIs401 ==
  [][\A p \in Procs :
       (Acts(p) /\ req'[p].kind \in {"list", "update", "delete"}
          /\ req'[p].auth = NoAuth)
       => /\ req'[p].pc = "done" /\ req'[p].status = 401
          /\ req'[p].ops = <<>>
          /\ films' = films /\ bucket' = bucket]_vars

(* a delete without the header was answered 401 while the film it names is
   there with its object *)
C5_Witness ==
  \E p \in Procs, f \in films :
    /\ req[p].pc = "done" /\ req[p].kind = "delete" /\ req[p].auth = NoAuth
    /\ req[p].status = 401 /\ f.id = req[p].id /\ ~Dangling(f)

(***************************************************************************)
(* C6                                                                      *)
(***************************************************************************)

(* C6: a create request without a name or without an image file is answered
   400 at once: no upload, no insert, the bucket and the films table are as
   before. *)
C6_CreateMissingIs400 ==
  [][\A p \in Procs :
       (Acts(p) /\ req'[p].kind = "create"
          /\ (req'[p].name = NoName \/ req'[p].file = NoFile))
       => /\ req'[p].pc = "done" /\ req'[p].status = 400
          /\ req'[p].ops = <<>>
          /\ films' = films /\ bucket' = bucket /\ nextId' = nextId]_vars

(* a create with the header and a name but no file was answered 400 *)
C6_Witness ==
  \E p \in Procs :
    /\ req[p].pc = "done" /\ req[p].kind = "create" /\ req[p].status = 400
    /\ req[p].auth # NoAuth /\ req[p].name # NoName /\ req[p].file = NoFile

(***************************************************************************)
(* C7                                                                      *)
(***************************************************************************)

RowIds(rows) == {rows[i].id : i \in 1 .. Len(rows)}

(* C7: once a delete of a film has been answered 200, no list answered
   afterwards holds a record with that id, and a delete of that id answered
   afterwards gets 404 (401 without the header, 500 when its database call
   fails), never 200. *)
C7_DeletedStaysDeleted ==
  [][\A p \in Procs :
       Answers(p) =>
         /\ (req'[p].kind = "list" /\ req'[p].status = 200)
              => RowIds(req'[p].rows) \cap deleted200 = {}
         /\ (req'[p].kind = "delete" /\ req'[p].id \in deleted200)
              => /\ req'[p].status \in {401, 404, 500}
                 /\ req'[p].status = 401 <=> req'[p].auth = NoAuth
                 /\ req'[p].status = 500 <=> req'[p].errors # {}]_vars

(* after a delete of a film was answered 200, a later delete of the same id
   found no row and was answered 404 *)
C7_Witness ==
  \E p \in Procs :
    /\ req[p].pc = "done" /\ req[p].kind = "delete" /\ req[p].status = 404
    /\ req[p].id \in deleted200 /\ req[p].ops = <<"select">>
    /\ nextId > req[p].id

(***************************************************************************)
(* C8                                                                      *)
(***************************************************************************)

(* the tables t and u hold the same rows but for the name of row id *)
SameButName(t, u, id) ==
  /\ \A f \in t : \E g \in u :
       /\ g.id = f.id /\ g.imageUrl = f.imageUrl /\ g.userId = f.userId
       /\ f.id # id => g.name = f.name
  /\ \A g \in u : \E f \in t : f.id = g.id
  /\ Cardinality(t) = Cardinality(u)

(* C8: an update with a name and no image makes no object-store call, leaves
   the bucket alone, and changes nothing in the films table but the name of
   the row it names; answered 200 to the owner, that row has the new name. *)
C8_NameOnlyUpdate ==
  [][\A p \in Procs :
       (Acts(p) /\ req'[p].kind = "update" /\ req'[p].file = NoFile
          /\ req'[p].auth \in Users /\ req'[p].name # NoName)
       => /\ bucket' = bucket
          /\ SameButName(films, films', req'[p].id)
          /\ ~Has(req'[p].ops, "remove") /\ ~Has(req'[p].ops, "upload")
          /\ (req'[p].pc = "done" /\ req'[p].status = 200)
               => \E g \in films' :
                    /\ g.id = req'[p].id /\ g.userId = req'[p].auth
                    /\ g.name = req'[p].name]_vars

(* the owner renamed one of two films without an image: answered 200, the
   row has the new name, both objects are there *)
C8_Witness ==
  \E p \in Procs, f \in films, g \in films :
    /\ req[p].pc = "done" /\ req[p].kind = "update" /\ req[p].status = 200
    /\ req[p].file = NoFile /\ req[p].ops = <<"update">>
    /\ f.id = req[p].id /\ f.name = "b" /\ g.id # f.id /\ g.name = "a"
    /\ ~Dangling(f) /\ ~Dangling(g)

(***************************************************************************)
(* C9                                                                      *)
(***************************************************************************)

(* C9: of two delete requests by the same caller for the same id that both
   found the row with their SELECT (so they ran concurrently) and that are
   answered one after the other without a rejected call, exactly one is
   answered 200 and the other 404, and only the one answered 200 has issued
   the remove. *)
C9_OneDeleteWins ==
  [][\A p \in Procs : \A q \in Procs \ {p} :
       (/\ req[p].pc = "done" /\ req[p].kind = "delete"
        /\ Answers(q) /\ req'[q].kind = "delete"
        /\ req'[q].id = req[p].id /\ req'[q].auth = req[p].auth
        /\ req[p].status # 500 /\ req'[q].status # 500
        /\ Has(req[p].ops, "delete") /\ Has(req'[q].ops, "delete"))
       => /\ {req[p].status, req'[q].status} = {200, 404}
          /\ \A r \in {req[p], req'[q]} :
               Has(r.ops, "remove") <=> r.status = 200]_vars

(* two deletes of one film both found the row; one was answered 200, and
   then the other, whose DELETE hit no row, 404 without a remove *)
C9_Witness ==
  \E q \in Procs :
    /\ req[q].pc = "done" /\ req[q].kind = "delete" /\ req[q].status = 404
    /\ req[q].ops = <<"select", "delete">>
    /\ req[q].id \in deleted200

(***************************************************************************)
(* C10                                                                     *)
(***************************************************************************)

(* C10 as stated: while requests run one at a time and no call fails, after
   every completed request every object in the bucket is referenced by a
   film row. *)
C10_NoOrphans ==
  (hist # "dirty" /\ Quiet) => Orphans = {}

(* C10 amended: while requests run one at a time and no call fails, and no
   update that supplied an image has been answered 404, after every
   completed request every object in the bucket is referenced by a film
   row. *)
C10_NoOrphansBut404 ==
  (hist = "clean" /\ Quiet) => Orphans = {}

(* such a run replaced a film's image and answered 200: one object, the
   row's *)
C10_Witness ==
  /\ hist = "clean" /\ Quiet
  /\ \E p \in Procs, f \in films :
       /\ req[p].pc = "done" /\ req[p].kind = "update" /\ req[p].status = 200
       /\ req[p].ops = <<"select", "remove", "upload", "update">>
       /\ f.id = req[p].id /\ bucket = {Basename(f.imageUrl)}
====
